---- MODULE Spec2Model ----
\* Bulk-email feature of the CRM: the Express router of
\* CRM-Mail/server/routes/bulkEmailRoutes.js (authentication middleware,
\* template download, POST /send with its sequential send loop) and the
\* BulkEmails React form that posts to it (its state hooks, event handlers,
\* send button and results panel).
\* Strings are sequences of one-character strings, so that trimming,
\* lower-casing, pattern matching and substitution are computed, not assumed.
EXTENDS Integers, Sequences, FiniteSets, TLC

\* ---------------------------------------------------------------- bounds
MaxRows == 3          \* data rows of an uploaded file in Spec
MaxTextLen == 4       \* length of a template text in SpecSubst
MaxTriggers == 2      \* SpecForm: send triggers delivered to one render
MaxInFlight == 2      \* SpecForm: send requests awaiting their response
MaxCapRows == 52      \* data rows of an uploaded file in SpecCap

\* ------------------------------------------------------- program constants
ErrorDisplayCap == 50
MaxFileSizeMB == 10     \* const maxSize = 10 * 1024 * 1024
HeaderRowOffset == 2

\* ---------------------------------------------------------------- strings
Null == [isNull |-> TRUE]

\* null and "not yet assigned" where the other values are strings
NullKey == <<"null">>
UnsetKey == <<"undefined">>

IsSpace(c) == c = " "

RECURSIVE TrimLeft(_)
TrimLeft(s) ==
    IF s = <<>> THEN <<>>
    ELSE IF IsSpace(Head(s)) THEN TrimLeft(Tail(s)) ELSE s

RECURSIVE TrimRight(_)
TrimRight(s) ==
    IF s = <<>> THEN <<>>
    ELSE IF IsSpace(s[Len(s)]) THEN TrimRight(SubSeq(s, 1, Len(s) - 1)) ELSE s

\* String.prototype.trim
Trim(s) == TrimRight(TrimLeft(s))

LowerChar(c) ==
    CASE c = "E" -> "e"
      [] c = "M" -> "m"
      [] c = "A" -> "a"
      [] c = "I" -> "i"
      [] c = "L" -> "l"
      [] c = "N" -> "n"
      [] c = "S" -> "s"
      [] OTHER -> c

\* String.prototype.toLowerCase
ToLowerCase(s) == [k \in 1..Len(s) |-> LowerChar(s[k])]

\* text.replace(/<[^>]*>/g, ''): drops every "<", anything but ">", ">" run
RECURSIVE StripTagsFrom(_, _)
StripTagsFrom(s, p) ==
    IF p > Len(s) THEN <<>>
    ELSE IF s[p] = "<" /\ \E q \in p+1..Len(s) : s[q] = ">"
         THEN LET q == CHOOSE q \in p+1..Len(s) :
                          s[q] = ">" /\ \A r \in p+1..q-1 : s[r] # ">"
              IN StripTagsFrom(s, q + 1)
         ELSE <<s[p]>> \o StripTagsFrom(s, p + 1)

StripTags(s) == StripTagsFrom(s, 1)

IsDigit(c) == c \in {"0", "1", "2", "3", "4", "5", "6", "7", "8", "9"}

\* Number.isNaN(parseInt(s, 10)): no digit after leading white space
ParseIntIsNaN(s) ==
    LET t == TrimLeft(s)
    IN t = <<>> \/ ~IsDigit(Head(t))

\* ------------------------------------------------------- helper functions
\* [^\s@]+ on the slice s[a..b]
IsLocalRun(s, a, b) ==
    /\ a <= b
    /\ \A k \in a..b : ~IsSpace(s[k]) /\ s[k] # "@"

\* /^[^\s@]+@[^\s@]+\.[^\s@]+$/.test(s)
EmailRegexTest(s) ==
    \E p \in 1..Len(s) : \E q \in 1..Len(s) :
        /\ s[p] = "@"
        /\ s[q] = "."
        /\ p < q
        /\ IsLocalRun(s, 1, p - 1)
        /\ IsLocalRun(s, p + 1, q - 1)
        /\ IsLocalRun(s, q + 1, Len(s))

isValidEmail(email) ==
    IF email = <<>> THEN FALSE
    ELSE \E trimmed \in {Trim(email)} : EmailRegexTest(trimmed)

IsEmailHeader(key) ==
    \E normalizedKey \in {Trim(ToLowerCase(key))} :
        \/ normalizedKey = <<"e", "m", "a", "i", "l">>
        \/ normalizedKey = <<"e", "-", "m", "a", "i", "l">>

IsEmailHeaderCaseSensitive(key) ==
    LET normalizedKey == Trim(key)
    IN normalizedKey = <<"e", "m", "a", "i", "l">>
       \/ normalizedKey = <<"e", "-", "m", "a", "i", "l">>

findEmailColumnCaseSensitive(keys) ==
    IF \E k \in 1..Len(keys) : IsEmailHeaderCaseSensitive(keys[k])
    THEN keys[CHOOSE k \in 1..Len(keys) :
                 /\ IsEmailHeaderCaseSensitive(keys[k])
                 /\ \A j \in 1..k-1 : ~IsEmailHeaderCaseSensitive(keys[j])]
    ELSE NullKey

\* keys = Object.keys(row); the first key that matches, or null
findEmailColumn(keys) ==
    IF \E k \in 1..Len(keys) : IsEmailHeader(keys[k])
    THEN keys[CHOOSE k \in 1..Len(keys) :
                 /\ IsEmailHeader(keys[k])
                 /\ \A j \in 1..k-1 : ~IsEmailHeader(keys[j])]
    ELSE NullKey

\* new RegExp(`\\{${key}\\}`, 'g') throws a SyntaxError on an unbalanced group
RegExpCompiles(key) == \A k \in 1..Len(key) : key[k] \notin {"(", ")"}

\* one pattern character against one text character: "." is the wildcard
PatternCharMatches(pch, c) == pch = "." \/ pch = c

\* the pattern \{key\} matches text at position p
MatchAt(text, p, key) ==
    /\ p + Len(key) + 1 <= Len(text)
    /\ text[p] = "{"
    /\ \A k \in 1..Len(key) : PatternCharMatches(key[k], text[p + k])
    /\ text[p + Len(key) + 1] = "}"

\* result.replace(regex, value) with the g flag: leftmost, non-overlapping
RECURSIVE ReplaceFrom(_, _, _, _)
ReplaceFrom(text, p, key, value) ==
    IF p > Len(text) THEN <<>>
    ELSE IF MatchAt(text, p, key)
         THEN value \o ReplaceFrom(text, p + Len(key) + 2, key, value)
         ELSE <<text[p]>> \o ReplaceFrom(text, p + 1, key, value)

RECURSIVE ReplaceKeys(_, _, _)
ReplaceKeys(result, variables, k) ==
    IF k > Len(variables) THEN result
    ELSE ReplaceKeys(ReplaceFrom(result, 1, variables[k][1], variables[k][2]),
                     variables, k + 1)

\* variables: the <<key, value>> pairs in Object.keys order
replaceTemplateVariables(text, variables) ==
    IF text = <<>> THEN [threw |-> FALSE, out |-> <<>>]
    ELSE IF \E k \in 1..Len(variables) : ~RegExpCompiles(variables[k][1])
         THEN [threw |-> TRUE, out |-> <<>>]
         ELSE [threw |-> FALSE, out |-> ReplaceKeys(text, variables, 1)]

\* ------------------------------------------------------------ input sets
E_Empty == <<>>
E_NoDot == <<"a", "@", "b">>
E_Good == <<"a", "@", "b", ".", "c">>
E_Padded == <<" ", "a", "@", "b", ".", "c">>
E_Other == <<"c", "@", "b", ".", "a">>
V_Name == <<"V">>

H_Email == <<"E", "m", "a", "i", "l">>
H_EMAIL == <<"E", "M", "A", "I", "L">>
H_email == <<"e", "m", "a", "i", "l">>
H_e_mail == <<" ", "e", "-", "m", "a", "i", "l", " ">>
H_Emails == <<"E", "m", "a", "i", "l", "s">>
H_N == <<"N">>
H_Paren == <<"(">>

Emails == {E_Empty, E_NoDot, E_Padded}

\* the header rows of the uploaded sheets
HeaderRows ==
    { <<H_Email, H_N>>, <<H_N, H_EMAIL>>, <<H_Emails, H_N>>,
      <<H_e_mail, H_email>>, <<H_Paren, H_e_mail>> }

\* the values a cell of a column may hold
ColumnValues(header) ==
    IF header \in {H_Email, H_EMAIL} THEN Emails
    ELSE IF header = H_e_mail THEN {E_Other, E_NoDot}
    ELSE IF header = H_email THEN {E_Empty}
    ELSE {V_Name}

RowsOf(headers) ==
    { r \in [1..Len(headers) -> Emails \cup {E_Other, V_Name}] :
        \A k \in 1..Len(headers) : r[k] \in ColumnValues(headers[k]) }

NoFile == [kind |-> "none", headers |-> <<>>, rows |-> <<>>]
BadTypeFile == [kind |-> "badtype", headers |-> <<>>, rows |-> <<>>]
UnparsableFile == [kind |-> "unparsable", headers |-> <<>>, rows |-> <<>>]

Sheets(maxRows) ==
    UNION { { [kind |-> "sheet", headers |-> h, rows |-> rs] :
                rs \in UNION { [1..n -> RowsOf(h)] : n \in 0..maxRows } } :
            h \in HeaderRows }

Files == {NoFile, BadTypeFile, UnparsableFile} \cup Sheets(MaxRows)

S_Blank == <<" ">>
S_HiN == <<"{", "N", "}">>
Subjects == {<<>>, S_Blank, S_HiN}

B_Text == <<"x">>
B_HtmlBlank == <<"<", "p", ">", " ", "<", "/", "p", ">">>
B_Html == <<"<", "p", ">", "x", "<", "/", "p", ">">>
\* <<bodyText, bodyHtml>> of the multipart form
Bodies == { <<<<>>, <<>>>>, <<<<>>, B_HtmlBlank>>, <<<<>>, B_Html>>, <<B_Text, B_Html>> }

AccountIds == {<<>>, <<"7">>, <<"k">>}
TemplateIds == {<<>>, <<"t">>}

\* the words of the Authorization header, authHeader.split(' ')
AuthHeaders == { <<>>, <<"Bearer">>, <<"Bearer", "forged">>, <<"Bearer", "signed">> }

\* jwt.verify(token, JWT_SECRET) returns for a token signed with the secret
JwtVerifies(token) == token = "signed"

GetRequests ==
    { [route |-> r, authHeader |-> a, file |-> NoFile, emailAccountId |-> <<>>,
       subject |-> <<>>, bodyText |-> <<>>, bodyHtml |-> <<>>, templateId |-> <<>>] :
      r \in {"test", "template"}, a \in AuthHeaders }

SendRequests(files, auths, ids, subjects, bodies) ==
    { [route |-> "send", authHeader |-> a, file |-> f, emailAccountId |-> id,
       subject |-> s, bodyText |-> b[1], bodyHtml |-> b[2], templateId |-> t] :
      a \in auths, f \in files, id \in ids, s \in subjects, b \in bodies,
      t \in TemplateIds }

\* every combination of the form fields with the files of at most one row,
\* and every file with the fields filled in
Requests ==
    GetRequests
    \cup SendRequests({NoFile, BadTypeFile, UnparsableFile} \cup Sheets(1),
                      AuthHeaders, AccountIds, Subjects, Bodies)
    \cup SendRequests(Files, {<<"Bearer", "signed">>}, {<<"7">>}, {S_HiN},
                      {<<B_Text, B_Html>>})

AccountTypes == {"smtp", "imap", "both"}

\* ------------------------------------------------------------------ state
VARIABLES
    req,            \* the HTTP request being served
    pc,             \* position of the request in the middleware chain / handler
    res,            \* the response written, status 0 while none is written
    written,        \* number of responses written for the request
    account,        \* result of EmailAccount.findByPk
    template,       \* result of EmailTemplate.findByPk
    recipients,     \* rows returned by parseFile
    emailColumn,    \* result of findEmailColumn
    i,              \* loop index of the send loop
    successCount,
    failedCount,
    errors,         \* error lines pushed so far
    trace,          \* calls made to the transport, the log and the timer
    results,        \* the form's results state (setResults)
    text,           \* SpecSubst: template text
    variables,      \* SpecSubst: <<key, value>> pairs
    substituted,    \* SpecSubst: result of replaceTemplateVariables
    form,           \* SpecForm: the state hooks of the form other than results
    inflight,       \* SpecForm: send requests posted and not yet settled
    lastRequest     \* SpecForm: form data of the send request posted last

vars == <<req, pc, res, written, account, template, recipients, emailColumn, i,
          successCount, failedCount, errors, trace, results,
          text, variables, substituted,
          form, inflight, lastRequest>>

substVars == <<text, variables, substituted>>
formVars == <<form, inflight, lastRequest>>
requestVars == <<req, pc, res, written, account, template, recipients, emailColumn,
                 i, successCount, failedCount, errors, trace>>
serverVars == <<req, pc, res, written, account, template, recipients, emailColumn, i,
                successCount, failedCount, errors, trace, results>>

Unset == [isUnset |-> TRUE]

\* ------------------------------------------------------------- responses
Response(status, error, success, failed, total, errs) ==
    [status |-> status, error |-> error, success |-> success, failed |-> failed,
     total |-> total, errors |-> errs]

ErrorsFieldAlwaysPresent(errs) == [present |-> TRUE, list |-> errs]

\* errors: errors.length > 0 ? errors : undefined
ErrorsField(errs) == [present |-> Len(errs) > 0, list |-> errs]

NoErrorsField == [present |-> FALSE, list |-> <<>>]

ErrorResponse(status, error) == Response(status, error, 0, 0, 0, NoErrorsField)

NoResponse == ErrorResponse(0, "")

BatchResult(success, failed, total, errs) ==
    Response(200, "", success, failed, total, ErrorsField(errs))

\* ------------------------------------------------------------- send loop
Event(ev, row) ==
    [ev |-> ev, row |-> row, to |-> <<>>, subject |-> <<>>, status |-> "", ok |-> TRUE]

\* recipient[key]
Cell(row, headers, key) ==
    row[CHOOSE k \in 1..Len(headers) : headers[k] = key]

\* variables[key] = recipient[key] || '' for every column of the row
RowVariables(row, headers) == [k \in 1..Len(headers) |-> <<headers[k], row[k]>>]

RowNumberOffByOne(idx) == idx + 1

\* the row number of an error line, `Row ${i + 2}`
RowNumber(idx) == idx + HeaderRowOffset

\* `Row ${i + 2}: Invalid or missing email address "${recipientEmail}"`
InvalidLine(idx, email) == [kind |-> "invalid", row |-> RowNumber(idx), value |-> email]

\* `Row ${i + 2} (${recipientEmail}): ${sendError.message}`
SendErrorLine(idx, email) == [kind |-> "send", row |-> RowNumber(idx), value |-> email]

FailedAfterInvalidUncounted(count) == count

\* failedCount++ of the invalid-address branch
FailedAfterInvalid(count) == count + 1

SuccessAfterLogOnlyIfLogged(count, logOk) == IF logOk THEN count + 1 ELSE count

\* successCount++ after the try/catch around EmailLog.create
SuccessAfterLog(count, logOk) == count + 1

\* if (i < recipients.length - 1)
NeedsDelay(idx, n) == idx < n - 1

SendRejectedAborts(L, email) ==
    [L EXCEPT !.pc = "done",
              !.res = ErrorResponse(500, "Failed to send bulk emails"),
              !.written = @ + 1]

\* catch (sendError): failedCount++, errors.push, then await EmailLog.create
SendRejected(L, email) ==
    [L EXCEPT !.pc = "logFailed",
              !.failedCount = @ + 1,
              !.errors = Append(@, SendErrorLine(L.i, email))]

\* the loop from index L.i up to its next await, or to res.json
RECURSIVE RunLoop(_, _, _, _, _)
RunLoop(rcpts, headers, col, subject, L) ==
    IF L.i >= Len(rcpts)
    THEN [L EXCEPT !.pc = "done",
                   !.res = BatchResult(L.successCount, L.failedCount,
                                       Len(rcpts), L.errors),
                   !.written = @ + 1]
    ELSE LET recipient == rcpts[L.i + 1]
             recipientEmail == Cell(recipient, headers, col)
         IN IF recipientEmail = <<>> \/ ~isValidEmail(recipientEmail)
            THEN RunLoop(rcpts, headers, col, subject,
                     [L EXCEPT !.failedCount = FailedAfterInvalid(@),
                               !.errors = Append(@, InvalidLine(L.i, recipientEmail)),
                               !.trace = Append(@, Event("invalid", L.i)),
                               !.i = @ + 1])
            ELSE LET personalizedSubject ==
                         replaceTemplateVariables(subject,
                                                  RowVariables(recipient, headers))
                 IN IF personalizedSubject.threw
                    THEN SendRejected(
                             [L EXCEPT !.trace = Append(@, Event("threw", L.i))],
                             recipientEmail)
                    ELSE [L EXCEPT
                            !.pc = "sendMail",
                            !.trace = Append(@,
                                [Event("send", L.i) EXCEPT
                                    !.to = Trim(recipientEmail),
                                    !.subject = personalizedSubject.out])]

\* the handler's local variables, as one record
LoopState ==
    [pc |-> pc, res |-> res, written |-> written,
     account |-> account, template |-> template,
     recipients |-> recipients, emailColumn |-> emailColumn,
     i |-> i, successCount |-> successCount,
     failedCount |-> failedCount, errors |-> errors, trace |-> trace]

SetLoop(L) ==
    /\ pc' = L.pc
    /\ res' = L.res
    /\ written' = L.written
    /\ account' = L.account
    /\ template' = L.template
    /\ recipients' = L.recipients
    /\ emailColumn' = L.emailColumn
    /\ i' = L.i
    /\ successCount' = L.successCount
    /\ failedCount' = L.failedCount
    /\ errors' = L.errors
    /\ trace' = L.trace

FailSilently(L, status, error) == [L EXCEPT !.pc = "done"]

\* return res.status(status).json({ error })
Fail(L, status, error) ==
    [L EXCEPT !.pc = "done", !.res = ErrorResponse(status, error),
              !.written = @ + 1]

\* parseFile: XLSX.read and sheet_to_json, throwing on undecodable content
\* and on a sheet without data rows
parseFile(file) ==
    IF file.kind = "unparsable"
    THEN [threw |-> TRUE, message |-> "Failed to parse file: unreadable", data |-> <<>>]
    ELSE IF Len(file.rows) = 0
         THEN [threw |-> TRUE,
               message |-> "Failed to parse file: File is empty or has no data rows",
               data |-> <<>>]
         ELSE [threw |-> FALSE, message |-> "", data |-> file.rows]

HasSmtpCapabilityAnyType(type) == TRUE

\* !(account.type !== 'smtp' && account.type !== 'both')
HasSmtpCapability(type) == type = "smtp" \/ type = "both"

\* from "Parse file" to the first await of the send loop
AfterTemplate(r, L) ==
    LET parsed == parseFile(r.file)
    IN IF parsed.threw THEN Fail(L, 400, parsed.message)
       ELSE IF Len(parsed.data) = 0 THEN Fail(L, 400, "No recipients found in file")
       ELSE LET WithColumn(col) ==
                    IF col = NullKey
                    THEN Fail([L EXCEPT !.recipients = parsed.data,
                                        !.emailColumn = col],
                              400, "Email column not found")
                    ELSE RunLoop(parsed.data, r.file.headers, col, r.subject,
                                 [L EXCEPT !.recipients = parsed.data,
                                           !.emailColumn = col,
                                           !.i = 0])
            IN \* const emailColumn = findEmailColumn(...), computed once
               CHOOSE next \in { WithColumn(emailCol) :
                                    emailCol \in {findEmailColumn(r.file.headers)} } :
                   TRUE

\* from "if (!account)" to the next await
AfterAccount(r, L) ==
    IF L.account = Null THEN Fail(L, 404, "Email account not found")
    ELSE IF ~HasSmtpCapability(L.account.type)
         THEN Fail(L, 400, "Selected account does not support SMTP sending")
         ELSE IF r.templateId # <<>>
              THEN [L EXCEPT !.pc = "findTemplate"]
              ELSE AfterTemplate(r, L)

\* const finalBodyText = bodyText || (bodyHtml ? bodyHtml.replace(...) : '')
FinalBodyText(r) ==
    IF r.bodyText # <<>> THEN r.bodyText ELSE StripTags(r.bodyHtml)

\* the synchronous validation at the top of the handler: the error message
\* of the first failing check, "" when all pass
ValidateFields(r) ==
    IF r.file.kind = "none" THEN "File is required"
    ELSE IF r.emailAccountId = <<>> THEN "Email account ID is required"
    ELSE IF r.subject = <<>> \/ Trim(r.subject) = <<>> THEN "Subject is required"
    ELSE IF FinalBodyText(r) = <<>> \/ Trim(FinalBodyText(r)) = <<>>
         THEN "Email body is required"
         ELSE ""

authenticateTokenUnverified(authHeader) ==
    LET token == IF Len(authHeader) >= 2 THEN authHeader[2] ELSE ""
    IN IF token = "" THEN 401 ELSE 0

\* 401 or 403 when the middleware answers, 0 when it calls next()
authenticateToken(authHeader) ==
    LET token == IF Len(authHeader) >= 2 THEN authHeader[2] ELSE ""
    IN IF token = "" THEN 401
       ELSE IF JwtVerifies(token) THEN 0 ELSE 403

\* results.errors.slice(0, 50) plus the "...and N more errors" item
RenderErrorListUncapped(rs) ==
    IF rs.errors.present /\ Len(rs.errors.list) > 0
    THEN [k \in 1..Len(rs.errors.list) |-> [more |-> 0, line |-> rs.errors.list[k]]]
    ELSE <<>>

RenderErrorList(rs) ==
    IF rs.errors.present /\ Len(rs.errors.list) > 0
    THEN LET shown == IF Len(rs.errors.list) > ErrorDisplayCap
                      THEN ErrorDisplayCap ELSE Len(rs.errors.list)
         IN [k \in 1..shown |-> [more |-> 0, line |-> rs.errors.list[k]]]
            \o (IF Len(rs.errors.list) > ErrorDisplayCap
                THEN <<[more |-> Len(rs.errors.list) - ErrorDisplayCap,
                        line |-> Null]>>
                ELSE <<>>)
    ELSE <<>>

\* ---------------------------------------------------------------- actions
SubstIdle ==
    /\ text = <<>>
    /\ variables = <<>>
    /\ substituted = Unset

\* the useState initial values, rendered
InitialForm ==
    [selectedFile |-> Null, emailAccountId |-> "", templateId |-> "",
     subject |-> <<>>, bodyHtml |-> <<>>, sending |-> FALSE]

FormIdle ==
    /\ form = InitialForm
    /\ inflight = 0
    /\ lastRequest = Null

InitServer(requests) ==
    /\ req \in requests
    /\ pc = "auth"
    /\ res = NoResponse
    /\ written = 0
    /\ account = Unset
    /\ template = Unset
    /\ recipients = <<>>
    /\ emailColumn = UnsetKey
    /\ i = 0
    /\ successCount = 0
    /\ failedCount = 0
    /\ errors = <<>>
    /\ trace = <<>>
    /\ results = Null

Init == InitServer(Requests) /\ SubstIdle /\ FormIdle

\* a request that passes every check, with a long file: rows that all fail
\* validation, or all but the first, or all but the last
CapRows(n, mode) ==
    [k \in 1..n |-> IF (mode = 1 /\ k = 1) \/ (mode = 2 /\ k = n)
                    THEN <<E_Good, V_Name>> ELSE <<E_NoDot, V_Name>>]

CapFiles ==
    { [kind |-> "sheet", headers |-> <<H_Email, H_N>>, rows |-> CapRows(n, g)] :
      n \in 1..MaxCapRows, g \in {0, 1, 2} }

CapRequests ==
    SendRequests(CapFiles, {<<"Bearer", "signed">>}, {<<"7">>, <<"k">>},
                 {S_HiN}, {<<B_Text, B_Html>>})

InitCap == InitServer(CapRequests) /\ SubstIdle /\ FormIdle

\* template texts and variable mappings for replaceTemplateVariables alone
TextChars == {"{", "}", "N", "n", "x"}

Texts == UNION { [1..n -> TextChars] : n \in 0..MaxTextLen }

VariablePairs ==
    { <<<<"N">>, <<"V">>>>, <<<<"N">>, <<"{", "n", "}">>>>,
      <<<<"n">>, <<"W">>>>, <<<<".">>, <<"P">>>> }

\* the keys of an object are distinct
VariableLists ==
    {<<>>} \cup { <<a>> : a \in VariablePairs }
           \cup { p \in VariablePairs \X VariablePairs : p[1][1] # p[2][1] }

ServerIdle ==
    /\ req = [route |-> "none", authHeader |-> <<>>, file |-> NoFile,
              emailAccountId |-> <<>>, subject |-> <<>>, bodyText |-> <<>>,
              bodyHtml |-> <<>>, templateId |-> <<>>]
    /\ pc = "idle"
    /\ res = NoResponse
    /\ written = 0
    /\ account = Unset
    /\ template = Unset
    /\ recipients = <<>>
    /\ emailColumn = UnsetKey
    /\ i = 0
    /\ successCount = 0
    /\ failedCount = 0
    /\ errors = <<>>
    /\ trace = <<>>
    /\ results = Null

InitSubst ==
    /\ ServerIdle
    /\ FormIdle
    /\ text \in Texts
    /\ variables \in VariableLists
    /\ substituted = Unset

\* one call replaceTemplateVariables(text, variables)
Substitute ==
    /\ substituted = Unset
    /\ substituted' = replaceTemplateVariables(text, variables)
    /\ UNCHANGED <<text, variables>>
    /\ UNCHANGED serverVars
    /\ UNCHANGED formVars

\* router.use(authenticateToken)
Authenticate ==
    /\ pc = "auth"
    /\ LET answer == authenticateToken(req.authHeader)
       IN IF answer = 401
          THEN /\ pc' = "done"
               /\ res' = ErrorResponse(401, "Access token required")
               /\ written' = written + 1
          ELSE IF answer = 403
               THEN /\ pc' = "done"
                    /\ res' = ErrorResponse(403, "Invalid token")
                    /\ written' = written + 1
               ELSE /\ pc' = (IF req.route = "send" THEN "upload" ELSE req.route)
                    /\ res' = res
                    /\ written' = written
    /\ UNCHANGED <<req, account, template, recipients, emailColumn, i,
                   successCount, failedCount, errors, trace, results>>
    /\ UNCHANGED substVars
    /\ UNCHANGED formVars

\* router.get('/test')
TestHandler ==
    /\ pc = "test"
    /\ pc' = "done"
    /\ res' = [ErrorResponse(200, "") EXCEPT !.error = "Bulk emails route is working"]
    /\ written' = written + 1
    /\ UNCHANGED <<req, account, template, recipients, emailColumn, i,
                   successCount, failedCount, errors, trace, results>>
    /\ UNCHANGED substVars
    /\ UNCHANGED formVars

\* router.get('/template')
TemplateHandler ==
    /\ pc = "template"
    /\ pc' = "done"
    /\ res' = [ErrorResponse(200, "") EXCEPT !.error = "bulk-email-template.xlsx"]
    /\ written' = written + 1
    /\ UNCHANGED <<req, account, template, recipients, emailColumn, i,
                   successCount, failedCount, errors, trace, results>>
    /\ UNCHANGED substVars
    /\ UNCHANGED formVars

\* upload.single('file'): the fileFilter passes its Error to the framework
UploadSingle ==
    /\ pc = "upload"
    /\ IF req.file.kind = "badtype"
       THEN pc' = "done" /\ res' = ErrorResponse(500, "Invalid file type")
            /\ written' = written + 1
       ELSE pc' = "handler" /\ res' = res /\ written' = written
    /\ UNCHANGED <<req, account, template, recipients, emailColumn, i,
                   successCount, failedCount, errors, trace, results>>
    /\ UNCHANGED substVars
    /\ UNCHANGED formVars

\* the handler up to await EmailAccount.findByPk(emailAccountId)
SendHandlerStart ==
    /\ pc = "handler"
    /\ \E message \in {ValidateFields(req)} :
         IF message # ""
         THEN SetLoop(Fail(LoopState, 400, message))
         ELSE SetLoop([LoopState EXCEPT !.pc = "findAccount1"])
    /\ UNCHANGED <<req, results>>
    /\ UNCHANGED substVars
    /\ UNCHANGED formVars

\* EmailAccount.findByPk settles: a row, null, or a rejection
FindAccountResolves ==
    /\ pc \in {"findAccount1", "findAccount2"}
    /\ \E found \in {Null, Unset} \cup {[type |-> t] : t \in AccountTypes} :
         IF found = Unset
         THEN SetLoop(Fail(LoopState, 500, "Failed to send bulk emails"))
         ELSE IF found = Null /\ pc = "findAccount1"
                 /\ ~ParseIntIsNaN(req.emailAccountId)
              THEN SetLoop([LoopState EXCEPT !.pc = "findAccount2"])
              ELSE \E next \in {AfterAccount(req, [LoopState EXCEPT
                                                        !.account = found])} :
                       SetLoop(next)
    /\ UNCHANGED <<req, results>>
    /\ UNCHANGED substVars
    /\ UNCHANGED formVars

\* EmailTemplate.findByPk settles: a row, null, or a rejection
FindTemplateResolves ==
    /\ pc = "findTemplate"
    /\ \E found \in {Null, Unset, [attachments |-> 1]} :
         IF found = Unset
         THEN SetLoop(Fail(LoopState, 500, "Failed to send bulk emails"))
         ELSE \E next \in {AfterTemplate(req, [LoopState EXCEPT
                                                    !.template = found])} :
                  SetLoop(next)
    /\ UNCHANGED <<req, results>>
    /\ UNCHANGED substVars
    /\ UNCHANGED formVars

\* after the try/catch of a row: the delay, or the next iteration
AfterRow(r, L) ==
    IF NeedsDelay(L.i, Len(L.recipients))
    THEN [L EXCEPT !.pc = "delay", !.trace = Append(@, Event("delay", L.i))]
    ELSE RunLoop(L.recipients, r.file.headers, L.emailColumn, r.subject,
                 [L EXCEPT !.i = @ + 1])

\* await transporter.sendMail(mailOptions) settles
SendMailResolves ==
    /\ pc = "sendMail"
    /\ \E ok \in BOOLEAN :
         LET email == Cell(recipients[i + 1], req.file.headers, emailColumn)
             L == [LoopState EXCEPT
                     !.trace = Append(@, [Event("settled", i) EXCEPT !.ok = ok])]
         IN \E next \in {IF ok THEN [L EXCEPT !.pc = "logSent"]
                                ELSE SendRejected(L, email)} :
                SetLoop(next)
    /\ UNCHANGED <<req, results>>
    /\ UNCHANGED substVars
    /\ UNCHANGED formVars

\* await EmailLog.create(...) settles, in the try or in the catch branch
LogResolves ==
    /\ pc \in {"logSent", "logFailed"}
    /\ \E ok \in BOOLEAN :
         LET status == IF pc = "logSent" THEN "sent" ELSE "failed"
             L == [LoopState EXCEPT
                     !.trace = Append(@, [Event("log", i) EXCEPT
                                             !.status = status, !.ok = ok]),
                     !.successCount = IF pc = "logSent"
                                      THEN SuccessAfterLog(@, ok) ELSE @]
         IN \E next \in {AfterRow(req, L)} : SetLoop(next)
    /\ UNCHANGED <<req, results>>
    /\ UNCHANGED substVars
    /\ UNCHANGED formVars

\* the 100 ms timer fires
DelayResolves ==
    /\ pc = "delay"
    /\ \E next \in {RunLoop(recipients, req.file.headers, emailColumn,
                             req.subject, [LoopState EXCEPT !.i = @ + 1])} :
         SetLoop(next)
    /\ UNCHANGED <<req, results>>
    /\ UNCHANGED substVars
    /\ UNCHANGED formVars

\* the form's await apiClient.post settles: setResults in try or in catch
ClientReceive ==
    /\ pc = "done"
    /\ req.route = "send"
    /\ pc' = "shown"
    /\ results' = IF res.status = 200
                  THEN res
                  ELSE Response(res.status, res.error, 0, 0, 0,
                                [present |-> TRUE, list |-> <<res.error>>])
    /\ UNCHANGED <<req, res, written, account, template, recipients,
                   emailColumn, i, successCount, failedCount, errors, trace>>
    /\ UNCHANGED substVars
    /\ UNCHANGED formVars

Next ==
    \/ Authenticate
    \/ TestHandler
    \/ TemplateHandler
    \/ UploadSingle
    \/ SendHandlerStart
    \/ FindAccountResolves
    \/ FindTemplateResolves
    \/ SendMailResolves
    \/ LogResolves
    \/ DelayResolves
    \/ ClientReceive

Spec == Init /\ [][Next]_vars

NextCap ==
    \/ Authenticate
    \/ UploadSingle
    \/ SendHandlerStart
    \/ FindAccountResolves
    \/ FindTemplateResolves
    \/ SendMailResolves
    \/ LogResolves
    \/ DelayResolves
    \/ ClientReceive

SpecCap == InitCap /\ [][NextCap]_vars

NextSubst == Substitute

SpecSubst == InitSubst /\ [][NextSubst]_vars

\* ------------------------------------------------------------ client form
\* files offered to the file input or dropped on the drop zone
F_Csv == [name |-> "rows.csv", extension |-> ".csv", size |-> 1]
F_Txt == [name |-> "rows.txt", extension |-> ".txt", size |-> 1]
F_Huge == [name |-> "rows.xlsx", extension |-> ".xlsx", size |-> MaxFileSizeMB + 1]

OfferedFiles == {F_Csv, F_Txt, F_Huge}

\* GET /api/templates, filtered by isActive !== false; ids are strings, as
\* the values of the select options are
activeTemplates ==
    << [id |-> "t1", subject |-> <<"t">>, bodyHtml |-> B_Html],
       [id |-> "t2", subject |-> NullKey, bodyHtml |-> NullKey] >>

\* the options of the template select
TemplateOptions == {""} \cup { activeTemplates[k].id : k \in 1..Len(activeTemplates) }

\* the options of the account select
AccountOptions == {"", "a1"}

\* what the user types into the subject input and the body editor
TypedSubjects == {<<>>, S_Blank, <<"s">>}
TypedBodies == {<<>>, B_HtmlBlank, <<"m">>}

\* value || ''
OrEmpty(value) == IF value = NullKey THEN <<>> ELSE value

stripHtmlKeepsTags(html) ==
    IF html = <<>> THEN <<>> ELSE Trim(html)

\* stripHtml in a browser: the trimmed textContent of the parsed html
stripHtml(html) ==
    IF html = <<>> THEN <<>> ELSE Trim(StripTags(html))

\* the state a render captures: the closure of its event handlers
Rendered(f, rs) == [form |-> f, results |-> rs]

\* const isSendDisabled, computed by the render that produced v
isSendDisabled(v) ==
    \/ v.form.selectedFile = Null
    \/ v.form.emailAccountId = ""
    \/ Trim(v.form.subject) = <<>>
    \/ Trim(stripHtml(v.form.bodyHtml)) = <<>>
    \/ v.form.sending

\* the toast of the validation in handleSendBulkEmails, "" when it passes
SendValidation(f) ==
    IF f.selectedFile = Null THEN "Please select a file"
    ELSE IF f.emailAccountId = "" THEN "Please select an email account"
    ELSE IF f.subject = <<>> \/ Trim(f.subject) = <<>> THEN "Please enter a subject"
    ELSE IF stripHtml(f.bodyHtml) = <<>> \/ Trim(stripHtml(f.bodyHtml)) = <<>>
         THEN "Please enter email body"
    ELSE ""

\* the FormData of handleSendBulkEmails; templateId "" is not appended
SendFormData(f) ==
    [file |-> f.selectedFile, emailAccountId |-> f.emailAccountId,
     subject |-> f.subject, bodyHtml |-> f.bodyHtml,
     bodyText |-> stripHtml(f.bodyHtml), templateId |-> f.templateId]

handleTemplateChangeKeepsEdits(f, selectedTemplateId) ==
    LET chosen == [f EXCEPT !.templateId = selectedTemplateId]
        found == { k \in 1..Len(activeTemplates) :
                     activeTemplates[k].id = selectedTemplateId }
    IN IF selectedTemplateId = "" \/ found = {}
       THEN chosen
       ELSE LET tpl == activeTemplates[CHOOSE k \in found : \A j \in found : k <= j]
            IN [chosen EXCEPT
                  !.subject = IF @ = <<>> THEN OrEmpty(tpl.subject) ELSE @,
                  !.bodyHtml = IF @ = <<>> THEN OrEmpty(tpl.bodyHtml) ELSE @]

\* handleTemplateChange: the form state after the selection
handleTemplateChange(f, selectedTemplateId) ==
    LET chosen == [f EXCEPT !.templateId = selectedTemplateId]
        found == { k \in 1..Len(activeTemplates) :
                     activeTemplates[k].id = selectedTemplateId }
    IN IF selectedTemplateId = "" \/ found = {}
       THEN chosen
       ELSE LET tpl == activeTemplates[CHOOSE k \in found : \A j \in found : k <= j]
            IN [chosen EXCEPT !.subject = OrEmpty(tpl.subject),
                              !.bodyHtml = OrEmpty(tpl.bodyHtml)]

\* validateAndSetFile: TRUE when the file is accepted
FileAccepted(file) ==
    /\ file.extension \in {".xlsx", ".xls", ".csv"}
    /\ file.size <= MaxFileSizeMB

handleResetFormKeepsTemplate(f) ==
    [f EXCEPT !.selectedFile = Null, !.subject = <<>>, !.bodyHtml = <<>>]

\* handleResetForm: the form state after the reset
handleResetForm(f) ==
    [f EXCEPT !.selectedFile = Null, !.subject = <<>>, !.bodyHtml = <<>>,
              !.templateId = ""]

\* {results.success > 0 && <button onClick={handleResetForm}>}
ResetButtonShown(v) == v.results # Null /\ v.results.success > 0

\* how a posted request settles: a response, or no response at all
Outcome(response, message) == [res |-> response, message |-> message]

SendOutcomes ==
    { Outcome(BatchResult(1, 0, 1, <<>>), ""),
      Outcome(BatchResult(0, 1, 1, <<"Row 2: Invalid email address - ">>), ""),
      Outcome(ErrorResponse(400, "Email column not found"),
              "Request failed with status code 400"),
      Outcome(NoResponse, "Network Error") }

\* error.response?.data?.error || error.message || 'Failed to send bulk emails'
errorMessage(outcome) ==
    IF outcome.res.error # "" THEN outcome.res.error
    ELSE IF outcome.message # "" THEN outcome.message
    ELSE "Failed to send bulk emails"

CatchResultsCountsFailure(outcome) ==
    Response(outcome.res.status, outcome.res.error, 0, 1, 1,
             [present |-> TRUE, list |-> <<errorMessage(outcome)>>])

\* setResults({ success: 0, failed: 0, total: 0, errors: [errorMessage] }),
\* kept with the status and error of the response that caused it
CatchResults(outcome) ==
    Response(outcome.res.status, outcome.res.error, 0, 0, 0,
             [present |-> TRUE, list |-> <<errorMessage(outcome)>>])

\* a user event handled by the handlers of the current render; the form
\* renders the new state before the next event
Handled(f, rs) ==
    /\ form' = f
    /\ results' = rs
    /\ UNCHANGED requestVars
    /\ UNCHANGED substVars

InitForm ==
    /\ ServerIdle
    /\ SubstIdle
    /\ FormIdle

\* handleFileSelect / handleDrop, through validateAndSetFile
SelectFile ==
    /\ \E file \in OfferedFiles :
         IF FileAccepted(file)
         THEN Handled([form EXCEPT !.selectedFile = file], Null)
         ELSE Handled(form, results)
    /\ UNCHANGED <<inflight, lastRequest>>

\* handleRemoveFile, whose button is rendered with a selected file
RemoveFile ==
    /\ form.selectedFile # Null
    /\ Handled([form EXCEPT !.selectedFile = Null], Null)
    /\ UNCHANGED <<inflight, lastRequest>>

\* onChange of the account select
ChangeAccount ==
    /\ \E id \in AccountOptions : Handled([form EXCEPT !.emailAccountId = id], results)
    /\ UNCHANGED <<inflight, lastRequest>>

\* onChange of the template select: another option is chosen
ChangeTemplate ==
    /\ \E id \in TemplateOptions \ {form.templateId} :
         Handled(handleTemplateChange(form, id), results)
    /\ UNCHANGED <<inflight, lastRequest>>

\* onChange of the subject input
EditSubject ==
    /\ \E typed \in TypedSubjects : Handled([form EXCEPT !.subject = typed], results)
    /\ UNCHANGED <<inflight, lastRequest>>

\* onChange of the body editor
EditBody ==
    /\ \E typed \in TypedBodies : Handled([form EXCEPT !.bodyHtml = typed], results)
    /\ UNCHANGED <<inflight, lastRequest>>

\* n trigger events on the send button of one render, the second and later
\* ones delivered before the form re-renders: nothing when that render left
\* the button disabled, else n calls of its handleSendBulkEmails, each with
\* the state that render captured
TriggerSend ==
    \E n \in 1..MaxTriggers :
        /\ inflight + n <= MaxInFlight
        /\ LET v == Rendered(form, results)
           IN IF isSendDisabled(v) \/ SendValidation(v.form) # ""
              THEN /\ Handled(form, results)
                   /\ UNCHANGED <<inflight, lastRequest>>
              ELSE /\ Handled([form EXCEPT !.sending = TRUE], Null)
                   /\ inflight' = inflight + n
                   /\ lastRequest' = SendFormData(v.form)

\* await apiClient.post settles: setResults in try or in catch, then finally
SendSettles ==
    /\ inflight > 0
    /\ \E outcome \in SendOutcomes :
         results' = IF outcome.res.status = 200 THEN outcome.res
                    ELSE CatchResults(outcome)
    /\ form' = [form EXCEPT !.sending = FALSE]
    /\ inflight' = inflight - 1
    /\ UNCHANGED lastRequest
    /\ UNCHANGED requestVars
    /\ UNCHANGED substVars

\* a click on "Send Another Batch" where the render shows it
ResetClick ==
    /\ ResetButtonShown(Rendered(form, results))
    /\ Handled(handleResetForm(form), Null)
    /\ UNCHANGED <<inflight, lastRequest>>

NextForm ==
    \/ SelectFile
    \/ RemoveFile
    \/ ChangeAccount
    \/ ChangeTemplate
    \/ EditSubject
    \/ EditBody
    \/ TriggerSend
    \/ SendSettles
    \/ ResetClick

SpecForm == InitForm /\ [][NextForm]_vars

\* ------------------------------------------------------------ properties
EventsOf(kinds) == { k \in 1..Len(trace) : trace[k].ev \in kinds }

Finished == pc \in {"done", "shown"}

\* the send loop has been entered: the email column was resolved
LoopStarted == emailColumn # UnsetKey /\ emailColumn # NullKey

IsBatchResult == req.route = "send" /\ res.status = 200

\* the cell of the resolved email column in the row with 0-based index r
EmailOfRow(r) == Cell(recipients[r + 1], req.file.headers, emailColumn)

\* C1: every BatchResult answered with HTTP 200 has success + failed = total,
\* and total is the number of data rows of the uploaded file, whatever mix of
\* invalid addresses, transport failures and logging failures occurred.
C1_CountsAddUp ==
    IsBatchResult =>
        /\ res.success + res.failed = res.total
        /\ res.total = Len(req.file.rows)

C1_Witness ==
    /\ IsBatchResult
    /\ res.success > 0
    /\ EventsOf({"invalid"}) # {}
    /\ \E k \in EventsOf({"settled"}) : ~trace[k].ok
    /\ \E k \in EventsOf({"log"}) : ~trace[k].ok

\* C2: a row whose email cell is empty or does not match local@domain.tld
\* after trimming is never handed to the transport, and once the loop has
\* passed it the error list holds exactly one line for it, naming row i + 2
\* and the malformed value.
C2_InvalidRowsRejected ==
    LoopStarted =>
        \A r \in 0..Len(recipients) - 1 :
            (EmailOfRow(r) = <<>> \/ ~EmailRegexTest(Trim(EmailOfRow(r)))) =>
                /\ \A k \in EventsOf({"send", "settled", "log"}) : trace[k].row # r
                /\ r < i =>
                     /\ Cardinality({ k \in 1..Len(errors) :
                                        errors[k].row = r + 2 }) = 1
                     /\ \E k \in 1..Len(errors) :
                            errors[k] = [kind |-> "invalid", row |-> r + 2,
                                         value |-> EmailOfRow(r)]
                     /\ failedCount >= 1

C2_Witness ==
    /\ IsBatchResult
    /\ Len(recipients) = 3
    /\ EmailOfRow(1) = E_NoDot
    /\ \E k \in 1..Len(errors) : errors[k].row = 3 /\ errors[k].value = E_NoDot
    /\ \E k \in EventsOf({"send"}) : trace[k].row = 2

\* the rows the loop has dealt with, in the order it dealt with them
RowOrder ==
    LET steps == SelectSeq(trace, LAMBDA e : e.ev \in {"invalid", "send", "threw"})
    IN [k \in 1..Len(steps) |-> steps[k].row]

InFlight == Cardinality(EventsOf({"send"})) - Cardinality(EventsOf({"settled"}))

\* C3: the loop takes the rows in file order, one at a time, with at most one
\* transport call in flight; a rejected transport call does not abort the
\* batch: the request ends with a BatchResult after every row was processed.
C3_SequentialAndIsolated ==
    LoopStarted =>
        /\ \A k \in 1..Len(RowOrder) : RowOrder[k] = k - 1
        /\ InFlight \in {0, 1}
        /\ InFlight = 1 <=> pc = "sendMail"
        /\ Finished =>
             /\ res.status = 200
             /\ Len(RowOrder) = Len(req.file.rows)

C3_Witness ==
    /\ Finished
    /\ LoopStarted
    /\ \E k \in EventsOf({"settled"}) :
          /\ ~trace[k].ok
          /\ trace[k].row = 0
          /\ \E j \in EventsOf({"send"}) : j > k /\ trace[j].row = 1

AllBlank(s) == \A k \in 1..Len(s) : s[k] = " "

\* the request reached the handler of POST /send
ReachedSendHandler ==
    /\ req.route = "send"
    /\ pc \notin {"auth", "upload", "handler", "idle"}
    /\ res.status \notin {401, 403}
    /\ req.file.kind # "badtype"

NothingSentOrLogged == EventsOf({"send", "settled", "log", "delay"}) = {}

FieldsPresent ==
    /\ req.file.kind # "none"
    /\ req.emailAccountId # <<>>
    /\ ~AllBlank(req.subject)
    /\ ~(req.bodyText = <<>> /\ AllBlank(StripTags(req.bodyHtml)))

TemplateResolved == req.templateId = <<>> \/ template # Unset

\* C4: the request fails as a whole, with nothing sent and nothing logged,
\* on a missing field (400), an unknown account (404), an account without
\* SMTP capability (400), an unreadable or empty file (400) and a missing
\* email column (400); the first failing check, in this order, decides.
C4_WholeRequestFailures ==
    (ReachedSendHandler /\ Finished) =>
        /\ req.file.kind = "none" =>
             res = ErrorResponse(400, "File is required")
        /\ (req.file.kind # "none" /\ req.emailAccountId = <<>>) =>
             res = ErrorResponse(400, "Email account ID is required")
        /\ (req.file.kind # "none" /\ req.emailAccountId # <<>>
               /\ AllBlank(req.subject)) =>
             res = ErrorResponse(400, "Subject is required")
        /\ (req.file.kind # "none" /\ req.emailAccountId # <<>>
               /\ ~AllBlank(req.subject)
               /\ req.bodyText = <<>> /\ AllBlank(StripTags(req.bodyHtml))) =>
             res = ErrorResponse(400, "Email body is required")
        /\ (FieldsPresent /\ account = Null) =>
             res = ErrorResponse(404, "Email account not found")
        /\ (FieldsPresent /\ account \notin {Null, Unset}
               /\ account.type \notin {"smtp", "both"}) =>
             res = ErrorResponse(400, "Selected account does not support SMTP sending")
        /\ (FieldsPresent /\ account \notin {Null, Unset}
               /\ account.type \in {"smtp", "both"} /\ TemplateResolved
               /\ (req.file.kind = "unparsable" \/ Len(req.file.rows) = 0)) =>
             (res.status = 400 /\ res.error = parseFile(req.file).message)
        /\ (FieldsPresent /\ account \notin {Null, Unset}
               /\ account.type \in {"smtp", "both"} /\ TemplateResolved
               /\ req.file.kind = "sheet" /\ Len(req.file.rows) > 0
               /\ \A k \in 1..Len(req.file.headers) :
                     Trim(ToLowerCase(req.file.headers[k])) \notin
                         {ToLowerCase(H_Email), <<"e", "-", "m", "a", "i", "l">>}) =>
             res = ErrorResponse(400, "Email column not found")
        /\ res.status \in {400, 404} => NothingSentOrLogged

C4_Witness ==
    /\ Finished
    /\ ReachedSendHandler
    /\ res = ErrorResponse(400, "Selected account does not support SMTP sending")
    /\ req.file.kind = "unparsable"

\* the send attempts and the delays of the batch, in order
SendsAndDelays ==
    SelectSeq(trace, LAMBDA e : e.ev \in {"send", "delay"})

\* C5: in a finished batch the delays lie exactly between consecutive send
\* attempts: attempts and delays alternate, starting and ending with an
\* attempt, also when invalid rows lie between or after the valid ones.
\* Stated for the batches in which every attempt reached the transport.
C5_DelayOnlyBetweenSends ==
    (IsBatchResult /\ LoopStarted /\ EventsOf({"threw"}) = {}) =>
        /\ \A k \in 1..Len(SendsAndDelays) :
              (SendsAndDelays[k].ev = "delay") <=> (k % 2 = 0)
        /\ Len(SendsAndDelays) > 0 =>
              SendsAndDelays[Len(SendsAndDelays)].ev # "delay"

SettledRows(ok) == { trace[k].row : k \in { j \in EventsOf({"settled"}) : trace[j].ok = ok } }

LoggedRows(status) ==
    { trace[k].row : k \in { j \in EventsOf({"log"}) : trace[j].status = status } }

RowsOfEvents(kinds) == { trace[k].row : k \in EventsOf(kinds) }

\* C6: whether EmailLog.create succeeds or throws, a row whose transport call
\* succeeded is counted in success and a row whose transport call failed is
\* counted in failed once; a log failure adds no error line, and the batch
\* still ends with a BatchResult.
C6_LogFailuresSwallowed ==
    LoopStarted =>
        /\ successCount = Cardinality(SettledRows(TRUE) \cap LoggedRows("sent"))
        /\ failedCount = Cardinality(RowsOfEvents({"invalid", "threw"})
                                       \cup SettledRows(FALSE))
        /\ Len(errors) = failedCount
        /\ \A k \in 1..Len(errors) :
              \/ errors[k].kind = "invalid"
                   /\ errors[k].row - 2 \in RowsOfEvents({"invalid"})
              \/ errors[k].kind = "send"
                   /\ errors[k].row - 2 \in RowsOfEvents({"threw"}) \cup SettledRows(FALSE)
        /\ Finished =>
             /\ res.status = 200
             /\ res.success = Cardinality(SettledRows(TRUE))
             /\ res.failed = Len(req.file.rows) - Cardinality(SettledRows(TRUE))

C6_Witness ==
    /\ Finished
    /\ IsBatchResult
    /\ \E k \in EventsOf({"log"}) :
          ~trace[k].ok /\ trace[k].status = "sent" /\ trace[k].row \in SettledRows(TRUE)
    /\ \E k \in EventsOf({"log"}) :
          ~trace[k].ok /\ trace[k].status = "failed" /\ trace[k].row \in SettledRows(FALSE)
    /\ res.success = 1
    /\ res.failed = 1

\* C7 as stated: the list the handler returns has at most 50 entries plus a
\* summary line when more than 50 rows failed, one entry per failed row
\* otherwise.
C7_ReturnedListCapped ==
    IsBatchResult =>
        IF res.failed > ErrorDisplayCap
        THEN Len(res.errors.list) <= ErrorDisplayCap + 1
        ELSE Len(res.errors.list) = res.failed

\* C7 amended: the handler returns one error line per failed row, uncapped;
\* the results panel of the form shows the first 50 lines followed by one
\* "N more" item when there are more than 50, and every line otherwise.
C7_PanelListCapped ==
    (pc = "shown" /\ IsBatchResult) =>
        LET shown == RenderErrorList(results)
        IN /\ Len(res.errors.list) = res.failed
           /\ results = res
           /\ Len(shown) = IF res.failed > 50 THEN 51 ELSE res.failed
           /\ \A k \in 1..Len(shown) :
                 IF k <= 50
                 THEN shown[k] = [more |-> 0, line |-> res.errors.list[k]]
                 ELSE shown[k] = [more |-> res.failed - 50, line |-> Null]

C7_Witness ==
    /\ pc = "shown"
    /\ IsBatchResult
    /\ res.failed = 52
    /\ Len(res.errors.list) = 52
    /\ Len(RenderErrorList(results)) = 51

NormalizedHeader(key) == Trim(ToLowerCase(key))

MatchingHeaders ==
    { k \in 1..Len(req.file.headers) :
        NormalizedHeader(req.file.headers[k]) \in
            { <<"e", "m", "a", "i", "l">>, <<"e", "-", "m", "a", "i", "l">> } }

\* C8: once the first row has been inspected, the resolved column is a header
\* that reads email or e-mail after trimming and lower-casing whenever the
\* sheet has one, wherever it stands; every message goes to the trimmed cell
\* of that one column; with no such header the request is answered 400 and
\* nothing is sent.
C8_EmailColumnResolved ==
    emailColumn # UnsetKey =>
        /\ MatchingHeaders # {} =>
             /\ \E k \in MatchingHeaders : emailColumn = req.file.headers[k]
             /\ \A k \in EventsOf({"send"}) :
                   trace[k].to = Trim(EmailOfRow(trace[k].row))
        /\ MatchingHeaders = {} =>
             /\ emailColumn = NullKey
             /\ res = ErrorResponse(400, "Email column not found")
             /\ NothingSentOrLogged

C8_Witness ==
    /\ req.file.headers = <<H_N, H_EMAIL>>
    /\ emailColumn = H_EMAIL
    /\ \E k \in EventsOf({"send"}) : trace[k].to = <<"a", "@", "b", ".", "c">>

\* {key} occurs literally in s
OccursLiterally(key, s) ==
    \E p \in 1..Len(s) :
        /\ p + Len(key) + 1 <= Len(s)
        /\ s[p] = "{"
        /\ \A k \in 1..Len(key) : s[p + k] = key[k]
        /\ s[p + Len(key) + 1] = "}"

\* C9: a text in which no {K} with K a key of the mapping occurs (no token at
\* all, or only placeholders that are not keys) is returned unchanged, for
\* keys that differ in case and keys that contain punctuation alike.
C9_OnlyKeysSubstituted ==
    (substituted # Unset
       /\ \A k \in 1..Len(variables) : ~OccursLiterally(variables[k][1], text)) =>
        (~substituted.threw /\ substituted.out = text)

\* the token of the Authorization header, if any
BearerToken == IF Len(req.authHeader) >= 2 THEN req.authHeader[2] ELSE ""

NoHandlerRan ==
    /\ pc \in {"auth", "done", "shown"}
    /\ account = Unset
    /\ template = Unset
    /\ recipients = <<>>
    /\ emailColumn = UnsetKey
    /\ trace = <<>>
    /\ res.status # 200

\* C10: for a request without a token that verifies against the secret no
\* handler runs: nothing is parsed, read or sent, and once the middleware has
\* answered the status is 401 without a token and 403 with a bad one.
C10_AuthRequired ==
    (req.route # "none" /\ ~JwtVerifies(BearerToken)) =>
        /\ NoHandlerRan
        /\ pc # "auth" =>
             res = IF BearerToken = ""
                   THEN ErrorResponse(401, "Access token required")
                   ELSE ErrorResponse(403, "Invalid token")

C10_Witness ==
    /\ req.route = "send"
    /\ BearerToken = "forged"
    /\ req.file.kind = "sheet"
    /\ Len(req.file.rows) = 1
    /\ FieldsPresent
    /\ res.status = 403
    /\ pc = "done"

\* {key} stands literally at position p of s
LiteralAt(key, s, p) ==
    /\ p + Len(key) + 1 <= Len(s)
    /\ s[p] = "{"
    /\ \A k \in 1..Len(key) : s[p + k] = key[k]
    /\ s[p + Len(key) + 1] = "}"

\* one pass over the original text: every {K} with K a key becomes vars[K],
\* and inserted text is not looked at again
RECURSIVE SimultaneousFrom(_, _, _)
SimultaneousFrom(s, p, pairs) ==
    IF p > Len(s) THEN <<>>
    ELSE IF \E k \in 1..Len(pairs) : LiteralAt(pairs[k][1], s, p)
         THEN LET k == CHOOSE k \in 1..Len(pairs) : LiteralAt(pairs[k][1], s, p)
              IN pairs[k][2] \o SimultaneousFrom(s, p + Len(pairs[k][1]) + 2, pairs)
         ELSE <<s[p]>> \o SimultaneousFrom(s, p + 1, pairs)

Reversed(pairs) == [k \in 1..Len(pairs) |-> pairs[Len(pairs) + 1 - k]]

\* C16: the result is the simultaneous replacement of every {K} of the
\* original text by vars[K], text inserted from a value is not substituted
\* again, and the result is the same for the reverse order of the keys.
\* Stated for the keys that are plain letters.
C16_SimultaneousReplacement ==
    (substituted # Unset
       /\ \A k \in 1..Len(variables) : variables[k][1] # <<".">>) =>
        /\ ~substituted.threw
        /\ substituted.out = SimultaneousFrom(text, 1, variables)
        /\ substituted = replaceTemplateVariables(text, Reversed(variables))

Increasing(lines) ==
    \A j \in 1..Len(lines) : \A k \in 1..Len(lines) :
        j < k => lines[j].row < lines[k].row

\* C17: between any two steps of the loop the error list has failedCount
\* lines, in increasing row order (so at most one per row); the BatchResult
\* carries the same list, and has no errors field exactly when failed = 0.
C17_ErrorLinesMatchFailures ==
    /\ Len(errors) = failedCount
    /\ Increasing(errors)
    /\ IsBatchResult =>
         /\ res.errors.present <=> res.failed # 0
         /\ res.errors.list = errors
         /\ res.failed = failedCount

C17_Witness ==
    /\ IsBatchResult
    /\ res.errors.present
    /\ res.failed = 2
    /\ res.errors.list[1].kind = "invalid"
    /\ res.errors.list[2].kind = "send"

\* fairness: the event loop runs every continuation whose promise settled
SpecFair == Init /\ [][Next]_vars /\ WF_vars(Next)

SendAuthenticated == req.route = "send" /\ JwtVerifies(BearerToken)

AnsweredOnce ==
    SendAuthenticated =>
        /\ written <= 1
        /\ written = 1 <=> Finished
        /\ Finished => res.status # 0
        /\ (written = 1 /\ LoopStarted) =>
              /\ i = Len(recipients)
              /\ Len(RowOrder) = Len(recipients)

\* C18: an authenticated POST /send is answered exactly once on every path,
\* never zero times and never twice; when every awaited call settles, the
\* response is eventually written, after every row was processed.
C18_AnsweredExactlyOnce ==
    /\ []AnsweredOnce
    /\ SendAuthenticated ~> (written = 1)

C18_Witness ==
    /\ SendAuthenticated
    /\ written = 1
    /\ LoopStarted
    /\ i = 3
    /\ \E k \in EventsOf({"settled"}) : ~trace[k].ok
    /\ \E k \in EventsOf({"log"}) : ~trace[k].ok

\* ------------------------------------------------- client form properties
\* C11: the form never has more than one send request in flight: between the
\* start of a send and its resolution no second request is issued, for every
\* interleaving of trigger events, including two trigger events delivered
\* before the form re-renders with the sending flag set.
C11_OneRequestInFlight == inflight <= 1

\* a file, an account, a subject and a stripped body that are not blank
FieldsComplete(file, accountId, subjectText, html) ==
    /\ file # Null
    /\ accountId # ""
    /\ ~AllBlank(subjectText)
    /\ ~AllBlank(StripTags(html))

Posts == inflight' > inflight

EntersSending == form'.sending /\ ~form.sending

\* a step that posts or sets sending is a send with complete fields
PostsOnlyComplete ==
    (Posts \/ EntersSending) =>
        /\ FieldsComplete(form.selectedFile, form.emailAccountId,
                          form.subject, form.bodyHtml)
        /\ Posts
        /\ form'.sending
        /\ results' = Null
        /\ lastRequest'.file = form.selectedFile
        /\ lastRequest'.emailAccountId = form.emailAccountId
        /\ lastRequest'.subject = form.subject
        /\ lastRequest'.bodyHtml = form.bodyHtml

\* a step that changes results without posting is not a send trigger
ResultsKeptUnlessPosted ==
    (results' # results /\ ~Posts) =>
        (SelectFile \/ RemoveFile \/ SendSettles \/ ResetClick)

\* C12: the form enters the sending state and posts a send request only when
\* a file is selected, an account is chosen, and the subject and the
\* HTML-stripped body are non-empty after trimming, and the request carries
\* those fields; with one of them missing no step posts a request or sets
\* sending, and results change only by a file event, a settled request or a
\* reset, never by a send trigger that posts nothing.
C12_SendNeedsCompleteFields ==
    /\ [](lastRequest # Null =>
            FieldsComplete(lastRequest.file, lastRequest.emailAccountId,
                           lastRequest.subject, lastRequest.bodyHtml))
    /\ [][PostsOnlyComplete /\ ResultsKeptUnlessPosted]_vars

C12_Witness ==
    /\ inflight = 1
    /\ form.sending
    /\ results = Null
    /\ lastRequest # Null
    /\ lastRequest.bodyHtml = B_Html
    /\ lastRequest.templateId = "t1"

\* the stored template of an option of the template select
TemplateById(id) ==
    activeTemplates[CHOOSE k \in 1..Len(activeTemplates) : activeTemplates[k].id = id]

\* a step that selects a template
SelectsTemplate == form'.templateId # form.templateId /\ form'.templateId # ""

\* a selection puts the stored subject and body of the template in the form
SelectionOverwrites ==
    SelectsTemplate =>
        LET tpl == TemplateById(form'.templateId)
        IN /\ form'.subject = (IF tpl.subject = NullKey THEN <<>> ELSE tpl.subject)
           /\ form'.bodyHtml = (IF tpl.bodyHtml = NullKey THEN <<>> ELSE tpl.bodyHtml)

\* subject and body change by a selection, a reset or an edit of the field
EditsKept ==
    /\ form'.subject # form.subject =>
           SelectsTemplate \/ ResetClick \/ EditSubject
    /\ form'.bodyHtml # form.bodyHtml =>
           SelectsTemplate \/ ResetClick \/ EditBody

\* C13: each template selection overwrites the subject and body state with
\* the selected template's stored subject and body, once, in the step of the
\* selection; afterwards manual edits of subject and body are kept: no event
\* other than a new template selection or a form reset overwrites them.
C13_TemplateFillsOnce == [][SelectionOverwrites /\ EditsKept]_vars

C13_Witness ==
    /\ form.templateId = "t1"
    /\ form.subject = <<"s">>
    /\ form.bodyHtml = <<"m">>
    /\ results # Null

\* a step in which a posted request settles
Settles == inflight' < inflight

\* the results a settled request leaves: the response data of a 2xx
\* response, else zero counts and the one error message
SettledResults(outcome) ==
    IF outcome.res.status = 200
    THEN results' = outcome.res
    ELSE /\ results'.success = 0
         /\ results'.failed = 0
         /\ results'.total = 0
         /\ results'.errors.present
         /\ results'.errors.list =
                <<IF outcome.res.status # 0 THEN outcome.res.error
                  ELSE outcome.message>>

FailureShown ==
    Settles =>
        /\ ~form'.sending
        /\ results' # Null
        /\ \E outcome \in SendOutcomes : SettledResults(outcome)
        /\ results'.status # 200 =>
              results'.success + results'.failed + results'.total = 0
              /\ Len(results'.errors.list) = 1

\* C14: when a send request fails (4xx/5xx response or network error) the
\* form shows results with success = 0, failed = 0, total = 0 and exactly one
\* error line carrying the error message, and sending is false again;
\* sending is also false again after every successful request.
C14_FailureShownAsZeroedResult == [][FailureShown]_vars

C14_Witness ==
    /\ inflight = 0
    /\ lastRequest # Null
    /\ ~form.sending
    /\ results # Null
    /\ results.status = 0
    /\ results.total = 0
    /\ results.errors.list = <<"Network Error">>

\* C15, as the specification states it: in every results-shown state of the
\* form the reset transition is available.
C15_ResetInEveryResultsState == results # Null => ENABLED ResetClick

\* the reset leaves the idle form, with the chosen account kept
ResetReturnsToIdle ==
    ResetClick =>
        /\ form' = [InitialForm EXCEPT !.emailAccountId = form.emailAccountId]
        /\ results' = Null

\* C15, amended: the reset transition is available exactly in the
\* results-shown states whose batch has at least one successful send, not
\* after a failed request or a batch without a success; taking it returns
\* the form to the idle state: no file, empty subject, empty body, no
\* template, no results, not sending; the chosen account is kept.
C15_ResetAfterSuccess ==
    /\ []((ENABLED ResetClick) <=> (results # Null /\ results.success > 0))
    /\ [][ResetReturnsToIdle]_vars

C15_Witness ==
    /\ form = [InitialForm EXCEPT !.emailAccountId = "a1"]
    /\ results = Null
    /\ inflight = 0
    /\ lastRequest # Null
    /\ lastRequest.templateId = "t1"

====
